---- MODULE Spec2Model ----
(***************************************************************************)
(* The mask-and-merge compositor of mask_generator_app.py and the          *)
(* apply_mask script of scripts/subtract_mask.py.                          *)
(*                                                                         *)
(* Every handler runs to completion before the next one starts (Gradio     *)
(* calls them synchronously), so each handler is one action.  The state    *)
(* is the call being answered (its name, its arguments, the locals it had  *)
(* when it returned, and what it returned or raised) and the contents of   *)
(* the working directory, which is the only thing that survives a call.    *)
(*                                                                         *)
(* Images are grids of pixels.  A colour is kept symbolic: the colour of   *)
(* pixel (x, y) of picture p is [img |-> p, x |-> x, y |-> y], so that two *)
(* pixels carry the same colour only if one was copied from the other.     *)
(* Alpha and grey values are numbers 0..255.                               *)
(***************************************************************************)
EXTENDS Integers, Sequences, FiniteSets, TLC

VARIABLES call, args, locals, result, outputs_dir, files,
          sessions, disk,
          prompts, prompts_file, now

vars == <<call, args, locals, result, outputs_dir, files,
          sessions, disk, prompts, prompts_file, now>>

(* The part of the state the mask generator's single-call machine owns,    *)
(* the part the two-session machine adds, and the tile generator's.        *)
compositor == <<call, args, locals, result, outputs_dir>>

shared == <<sessions, disk>>

tiles == <<prompts, prompts_file, now>>

(* Bounds of the model. *)
MaxDim == 3
MaxOff == 3
MaxTime == 2

(***************************************************************************)
(* Python values.                                                          *)
(***************************************************************************)
None == [kind |-> "None"]

Str(s) == [kind |-> "str", s |-> s]

Min(a, b) == IF a < b THEN a ELSE b

Max(a, b) == IF a > b THEN a ELSE b

Dims == 1..MaxDim

Sizes == Dims \X Dims

Grid(w, h) == (0..(w - 1)) \X (0..(h - 1))

(* A PIL image: size (w, h), a mode, and a pixel at every (x, y). *)
PILImage(mode, w, h, px) == [kind |-> "Image", mode |-> mode, w |-> w, h |-> h, px |-> px]

(* A numpy array of shape (h, w, c), or (h, w) when c = 0; at[x, y] is the *)
(* sequence of channel values of row y, column x.                          *)
NdArray(w, h, c, at) == [kind |-> "ndarray", w |-> w, h |-> h, c |-> c, at |-> at]

(* A Python dict: a function from its keys. *)
Dict(items) == [kind |-> "dict", items |-> items]

size(image) == <<image.w, image.h>>

(***************************************************************************)
(* The inputs the calls are tried on.                                      *)
(***************************************************************************)
Patterns == {"clear", "solid", "checker", "faint", "corner"}

(* Alpha of pixel (x, y) under a pattern: nothing drawn, everything drawn, *)
(* every other pixel drawn, a barely visible stroke over every other       *)
(* pixel, one pixel half drawn.                                            *)
AlphaAt(p, x, y) ==
    CASE p = "clear" -> 0
      [] p = "solid" -> 255
      [] p = "checker" -> IF (x + y) % 2 = 0 THEN 255 ELSE 0
      [] p = "faint" -> IF (x + y) % 2 = 0 THEN 1 ELSE 0
      [] p = "corner" -> IF x = 0 /\ y = 0 THEN 128 ELSE 255

Colour(name, x, y) == [img |-> name, x |-> x, y |-> y]

(* An RGB picture (no alpha channel) and an RGBA picture. *)
RGBPicture(name, w, h) ==
    PILImage("RGB", w, h, [p \in Grid(w, h) |-> [rgb |-> Colour(name, p[1], p[2])]])

RGBAPicture(name, w, h, pat) ==
    PILImage("RGBA", w, h,
             [p \in Grid(w, h) |-> [rgb |-> Colour(name, p[1], p[2]),
                                    a |-> AlphaAt(pat, p[1], p[2])]])

(* A layer painted in the editor with the white brush. *)
Layer(w, h, pat) ==
    NdArray(w, h, 4, [p \in Grid(w, h) |-> <<255, 255, 255, AlphaAt(pat, p[1], p[2])>>])

(* Layers without an alpha channel: a grey (h, w) array, an RGB (h, w, 3) one. *)
GreyLayer(w, h) == NdArray(w, h, 0, [p \in Grid(w, h) |-> <<255>>])

RGBLayer(w, h) == NdArray(w, h, 3, [p \in Grid(w, h) |-> <<255, 255, 255>>])

EditorValue(layers) ==
    Dict([background |-> None, layers |-> layers, composite |-> None])

WellFormedEditorOutputs ==
    {EditorValue(<<Layer(s[1], s[2], pat)>>) : s \in Sizes, pat \in Patterns \ {"corner"}}

MalformedEditorOutputs ==
    { Layer(1, 1, "solid"),
      Dict([background |-> None, composite |-> None]),
      EditorValue(<<>>),
      EditorValue(<<GreyLayer(2, 1)>>),
      EditorValue(<<RGBLayer(1, 2)>>) }

EditorOutputs == {None} \cup WellFormedEditorOutputs \cup MalformedEditorOutputs

(* An uploaded file: its path and the picture stored in it. *)
Path(dir, name, ext) == [kind |-> "path", dir |-> dir, name |-> name, ext |-> ext]

InputPictures ==
    {RGBPicture("input", s[1], s[2]) : s \in Sizes}
        \cup {RGBAPicture("input", s[1], s[2], "corner") : s \in Sizes}

(***************************************************************************)
(* PIL and numpy operations the handlers call.                             *)
(***************************************************************************)
(* Image.convert('RGBA'): an RGB pixel becomes opaque, a grey pixel an     *)
(* opaque grey, an RGBA image is copied.                                   *)
convert_RGBA(image) ==
    CASE image.mode = "RGBA" -> image
      [] image.mode = "RGB" ->
            PILImage("RGBA", image.w, image.h,
                     [p \in Grid(image.w, image.h) |-> [rgb |-> image.px[p].rgb, a |-> 255]])
      [] image.mode = "L" ->
            PILImage("RGBA", image.w, image.h,
                     [p \in Grid(image.w, image.h) |-> [rgb |-> [grey |-> image.px[p]], a |-> 255]])

(* Image.crop((left, top, right, bottom)). *)
crop(image, left, top, right, bottom) ==
    PILImage(image.mode, right - left, bottom - top,
             [p \in Grid(right - left, bottom - top) |-> image.px[<<p[1] + left, p[2] + top>>]])

(* Image.resize(size, Image.NEAREST): output pixel x reads the source      *)
(* pixel under its centre, floor((x + 0.5) * source / target).             *)
(* Sampling under the output pixel's left edge instead of its centre. *)
NearestIndex_edge(i, src, dst) == (i * src) \div dst

NearestIndex(i, src, dst) == ((2 * i + 1) * src) \div (2 * dst)

resize_NEAREST(image, sz) ==
    PILImage(image.mode, sz[1], sz[2],
             [p \in Grid(sz[1], sz[2]) |->
                 image.px[<<NearestIndex(p[1], image.w, sz[1]),
                            NearestIndex(p[2], image.h, sz[2])>>]])

(* Image.putalpha(mask) with an 'L' mask of the image's size. *)
putalpha(image, mask) ==
    PILImage("RGBA", image.w, image.h,
             [p \in Grid(image.w, image.h) |-> [rgb |-> image.px[p].rgb, a |-> mask.px[p]]])

(* Image.resize(size, Image.LANCZOS).  A resize to the image's own size    *)
(* is a copy.  Otherwise every pixel is a filtered mix of its source       *)
(* neighbourhood: the colour is kept symbolic, marked as resampled from    *)
(* the source pixel under its centre, and the alpha is that pixel's.       *)
resize_LANCZOS(image, sz) ==
    IF sz = size(image)
    THEN image
    ELSE PILImage(image.mode, sz[1], sz[2],
                  [p \in Grid(sz[1], sz[2]) |->
                      LET q == <<NearestIndex(p[1], image.w, sz[1]),
                                 NearestIndex(p[2], image.h, sz[2])>>
                      IN  [rgb |-> [resampled |-> image.px[q].rgb], a |-> image.px[q].a]])

(* PIL's BLEND(mask, in1, in2): DIV255(in1 * (255 - mask) + in2 * mask). *)
DIV255(a) == (((a + 128) \div 256) + (a + 128)) \div 256

BLEND(mask, in1, in2) == DIV255(in1 * (255 - mask) + in2 * mask)

(* One pixel of paste_mask_RGBA: the destination is kept where the mask is *)
(* 0, replaced where it is 255, and blended channel by channel between.    *)
PastePixel(under, over, mask) ==
    CASE mask = 0 -> under
      [] mask = 255 -> over
      [] OTHER -> [rgb |-> [under |-> under.rgb, over |-> over.rgb, mask |-> mask],
                   a |-> BLEND(mask, under.a, over.a)]

(* Image.paste(im, (x, y), mask) with mask = im: the box is               *)
(* (x, y, x + im.w, y + im.h), clipped to the destination.                 *)
InBox(p, x, y, w, h) == x <= p[1] /\ p[1] < x + w /\ y <= p[2] /\ p[2] < y + h

(* A paste that ignores the position it is given. *)
paste_at_origin(image, im, x, y) ==
    PILImage(image.mode, image.w, image.h,
             [p \in Grid(image.w, image.h) |->
                 IF InBox(p, 0, 0, im.w, im.h)
                 THEN PastePixel(image.px[p], im.px[p], im.px[p].a)
                 ELSE image.px[p]])

paste(image, im, x, y) ==
    PILImage(image.mode, image.w, image.h,
             [p \in Grid(image.w, image.h) |->
                 IF InBox(p, x, y, im.w, im.h)
                 THEN LET q == <<p[1] - x, p[2] - y>>
                      IN  PastePixel(image.px[p], im.px[q], im.px[q].a)
                 ELSE image.px[p]])

(***************************************************************************)
(* mask_generator_app.py                                                   *)
(***************************************************************************)
(* crop_to_square taking the top-left square instead of the centred one. *)
crop_to_square_top_left(image) ==
    LET sz == Min(image.w, image.h)
    IN  crop(image, 0, 0, sz, sz)

crop_to_square(image) ==
    LET width == image.w
        height == image.h
        sz == Min(width, height)
        left == (width - sz) \div 2
        top == (height - sz) \div 2
        right == left + sz
        bottom == top + sz
    IN  crop(image, left, top, right, bottom)

Return(v) == [kind |-> "return", value |-> v]

Raise(e) == [kind |-> "raise", exc |-> e]

(* np.where(mask[:, :, 3] > 0, 255, 0) followed by Image.fromarray(mode='L'). *)
(* The threshold left out: the alpha value is used as the mask value. *)
Threshold_none(a) == a

Threshold(a) == IF a > 0 THEN 255 ELSE 0

binary_mask(mask) ==
    PILImage("L", mask.w, mask.h, [p \in Grid(mask.w, mask.h) |-> Threshold(mask.at[p][4])])

(* mask[:, :, 3] needs a third axis with at least four entries. *)
HasAlphaChannel(mask) == mask.kind = "ndarray" /\ mask.c >= 4

generate_mask(editor_output, original_size) ==
    IF editor_output = None \/ editor_output.kind # "dict"
    THEN Return(None)
    ELSE IF "layers" \notin DOMAIN editor_output.items \/ editor_output.items.layers = <<>>
    THEN Return(None)
    ELSE LET mask == editor_output.items.layers[1]
         IN  IF ~HasAlphaChannel(mask)
             THEN Raise("IndexError")
             ELSE Return(resize_NEAREST(binary_mask(mask), original_size))

(* os.path.basename, os.path.splitext and os.path.join on the pieces of a path. *)
basename(path) == [name |-> path.name, ext |-> path.ext]

(* The extension left on the name. *)
splitext_keeps_ext(base) == <<base.name \o base.ext, "">>

splitext(base) == <<base.name, base.ext>>

join_outputs(file) == "outputs/" \o file

(* Pictures are objects: a name holds a reference, and putalpha and paste  *)
(* change the object in place.  A heap maps references to pictures.        *)
Store(heap, ref, image) ==
    [r \in DOMAIN heap \cup {ref} |-> IF r = ref THEN image ELSE heap[r]]

(* The same object under a second name, instead of a copy. *)
Image_copy_alias(heap, ref, fresh) == [heap |-> heap, ref |-> ref]

(* Image.copy(): a new object with the same pixels. *)
Image_copy(heap, ref, fresh) == [heap |-> Store(heap, fresh, heap[ref]), ref |-> fresh]

(* Line 78: the inputs process_and_prepare_merge cannot work without. *)
MissingInput_path_only(image_path, editor_output) == image_path = None

MissingInput(image_path, editor_output) == image_path = None \/ editor_output = None

(* Line 86: the size the mask is rasterized to. *)
MaskTargetSize_argument(original_image, original_size) == original_size

MaskTargetSize(original_image, original_size) == size(original_image)

(* What process_and_prepare_merge does: its return value, the locals it    *)
(* had bound when it left, and the directory it leaves behind.  image_file *)
(* is the picture Image.open finds at image_path.  putalpha raises         *)
(* ValueError when the mask is not of the image's size.                    *)
process_and_prepare_merge(image_path, image_file, editor_output, original_size, dir, fs) ==
    IF MissingInput(image_path, editor_output)
    THEN [result |-> Return(<<Str("No image or mask to process."), None, None>>),
          locals |-> [at |-> "missing"],
          outputs_dir |-> dir, files |-> fs]
    ELSE LET opened == convert_RGBA(image_file)
             original_image == crop_to_square(opened)
             generated == generate_mask(editor_output,
                                        MaskTargetSize(original_image, original_size))
         IN  IF generated.kind = "raise"
             THEN [result |-> generated,
                   locals |-> [at |-> "generate_mask", opened |-> opened,
                               original_image |-> original_image],
                   outputs_dir |-> dir, files |-> fs]
             ELSE LET mask_image == generated.value
                  IN  IF mask_image = None
                      THEN [result |-> Return(<<Str("Failed to generate mask."), None, None>>),
                            locals |-> [at |-> "no mask", opened |-> opened,
                                        original_image |-> original_image],
                            outputs_dir |-> dir, files |-> fs]
                      ELSE IF size(mask_image) # size(original_image)
                      THEN [result |-> Raise("ValueError"),
                            locals |-> [at |-> "putalpha", opened |-> opened,
                                        original_image |-> original_image,
                                        mask_image |-> mask_image],
                            outputs_dir |-> dir, files |-> fs]
                      ELSE LET heap == [r \in {"original_image", "editor_output"} |->
                                           IF r = "original_image" THEN original_image
                                           ELSE editor_output]
                               copied == Image_copy(heap, "original_image", "processed_image")
                               after == Store(copied.heap, copied.ref,
                                              putalpha(copied.heap[copied.ref], mask_image))
                               processed_image == after[copied.ref]
                               name == splitext(basename(image_path))[1]
                               processed_path == join_outputs(name \o "-processed.png")
                           IN  [result |-> Return(<<Str("Processed image saved as " \o processed_path),
                                                    mask_image, processed_image>>),
                                locals |-> [at |-> "done", opened |-> opened,
                                            original_image |-> after["original_image"],
                                            editor_output |-> after["editor_output"],
                                            mask_image |-> mask_image,
                                            processed_image |-> processed_image,
                                            processed_path |-> processed_path],
                                outputs_dir |-> TRUE,
                                files |-> fs \cup {processed_path}]

(* int() of a slider value.  Positions are kept in half pixels (3 is 1.5)  *)
(* and int() truncates towards zero.                                       *)
int_half(v) == IF v >= 0 THEN v \div 2 ELSE -((-v) \div 2)

(* int(length * scale) for a positive scale kept in tenths (15 is 1.5).    *)
int_scaled(length, scale) == (length * scale) \div 10

(* Lines 158-159 without the max(0, ...), and without the min(...). *)
clamp_no_floor(position, background_length, processed_length) ==
    Min(position, background_length - processed_length)

clamp_no_ceiling(position, background_length, processed_length) ==
    Max(0, position)

clamp(position, background_length, processed_length) ==
    Max(0, Min(position, background_length - processed_length))

(* What interactive_merge does.  background_file is the picture Image.open *)
(* finds when background_image is a path.                                  *)
interactive_merge(processed_image, background_image, background_file, x_position, y_position, scale, dir, fs) ==
    IF processed_image = None \/ background_image = None
    THEN [result |-> Return(Str("Processed image or background image is missing.")),
          locals |-> [at |-> "missing"],
          outputs_dir |-> dir, files |-> fs]
    ELSE LET processed == convert_RGBA(processed_image)
             background == IF background_image.kind = "path"
                           THEN convert_RGBA(background_file)
                           ELSE convert_RGBA(background_image)
             new_size == <<int_scaled(processed.w, scale), int_scaled(processed.h, scale)>>
         IN  IF new_size[1] < 1 \/ new_size[2] < 1
             THEN \* resize raises ValueError, caught by the except clause
                  [result |-> Return(Str("An error occurred during merging: "
                                         \o "height and width must be > 0")),
                   locals |-> [at |-> "resize", background |-> background,
                               new_size |-> new_size],
                   outputs_dir |-> dir, files |-> fs]
             ELSE IF ~dir
             THEN \* save raises FileNotFoundError, caught by the except clause
                  [result |-> Return(Str("An error occurred during merging: "
                                         \o "No such file or directory")),
                   locals |-> [at |-> "save", background |-> background,
                               new_size |-> new_size],
                   outputs_dir |-> dir, files |-> fs]
             ELSE LET scaled == resize_LANCZOS(processed, new_size)
                      scaled_processed_path == join_outputs("scaled_processed.png")
                      paste_x == clamp(int_half(x_position), background.w, scaled.w)
                      paste_y == clamp(int_half(y_position), background.h, scaled.h)
                      heap == [r \in {"processed_image", "background_image", "background"} |->
                                  IF r = "processed_image" THEN processed_image
                                  ELSE IF r = "background_image" THEN background_image
                                  ELSE background]
                      copied == Image_copy(heap, "background", "merged")
                      after == Store(copied.heap, copied.ref,
                                     paste(copied.heap[copied.ref], scaled, paste_x, paste_y))
                      merged == after[copied.ref]
                      merged_path == join_outputs("merged.png")
                  IN  [result |-> Return(merged),
                       locals |-> [at |-> "done", background |-> after["background"],
                                   processed_image |-> after["processed_image"],
                                   background_image |-> after["background_image"],
                                   new_size |-> new_size, processed |-> scaled,
                                   paste_x |-> paste_x, paste_y |-> paste_y],
                       outputs_dir |-> dir,
                       files |-> fs \cup {scaled_processed_path, merged_path}]

(***************************************************************************)
(* scripts/subtract_mask.py                                                *)
(***************************************************************************)
(* output_array[~keep_mask, 3] = 0 with keep_mask = (mask alpha == 255). *)
(* The mask's alpha multiplied into the original's instead. *)
KeepAlpha_multiply(original_alpha, mask_alpha) == (original_alpha * mask_alpha) \div 255

KeepAlpha(original_alpha, mask_alpha) == IF mask_alpha = 255 THEN original_alpha ELSE 0

(* What apply_mask does.  original_file and mask_file are the pictures     *)
(* Image.open finds at the two input paths.                                *)
apply_mask(original_file, mask_file, output_image_path, dir, fs) ==
    LET opened == convert_RGBA(original_file)
        mask == convert_RGBA(mask_file)
        original == IF size(opened) # size(mask)
                    THEN resize_LANCZOS(opened, size(mask))
                    ELSE opened
        output == PILImage("RGBA", original.w, original.h,
                           [p \in Grid(original.w, original.h) |->
                               [rgb |-> original.px[p].rgb,
                                a |-> KeepAlpha(original.px[p].a, mask.px[p].a)]])
    IN  [result |-> Return(None),
         locals |-> [at |-> "done", opened |-> opened, original |-> original,
                     mask |-> mask, output |-> output],
         outputs_dir |-> dir,
         files |-> fs \cup {output_image_path}]

(***************************************************************************)
(* integrated_tile_generator.py: the list of prompts and its file.         *)
(***************************************************************************)
(* An entry of the list.  A timestamp is the time of the clock, standing   *)
(* for its isoformat() string.                                             *)
PromptEntry(prompt, keywords, timestamp, used_for_generation) ==
    [prompt |-> prompt, keywords |-> keywords, timestamp |-> timestamp,
     used_for_generation |-> used_for_generation]

(* json.dump of the list: an array of objects whose members are JSON       *)
(* strings and the literals true and false.                                *)
json_string(s) == [string |-> s]

json_literal(b) == [literal |-> IF b THEN "true" ELSE "false"]

json_dump(list) ==
    [array |-> [i \in 1..Len(list) |->
        [prompt |-> json_string(list[i].prompt),
         keywords |-> json_string(list[i].keywords),
         timestamp |-> json_string(list[i].timestamp),
         used_for_generation |-> json_literal(list[i].used_for_generation)]]]

(* json.load: strings and booleans come back as they went in. *)
json_load(text) ==
    [i \in 1..Len(text.array) |->
        PromptEntry(text.array[i].prompt.string,
                    text.array[i].keywords.string,
                    text.array[i].timestamp.string,
                    text.array[i].used_for_generation.literal = "true")]

(* load_prompts: the list in the file, or [] when there is no file. *)
load_prompts(file) == IF file = None THEN <<>> ELSE json_load(file)

(* save_prompts *)
save_prompts(list) == json_dump(list)

(* Lines 46-48 with the flag stored whatever it is. *)
UpdateExisting_overwrite(existing_prompt, used_for_generation, timestamp) ==
    [existing_prompt EXCEPT !.timestamp = timestamp,
                            !.used_for_generation = used_for_generation]

(* Lines 46-48: an entry found again is stamped and marked only when it    *)
(* was used for a generation.                                              *)
UpdateExisting(existing_prompt, used_for_generation, timestamp) ==
    IF used_for_generation
    THEN [existing_prompt EXCEPT !.timestamp = timestamp, !.used_for_generation = TRUE]
    ELSE existing_prompt

(* The entries the loop of line 44 compares equal to the text. *)
Matching(list, prompt) == {i \in 1..Len(list) : list[i].prompt = prompt}

(* What add_prompt does to the list and the file at time timestamp. *)
add_prompt(list, prompt, keywords, used_for_generation, timestamp) ==
    IF Matching(list, prompt) # {}
    THEN LET first == CHOOSE i \in Matching(list, prompt) :
                          \A j \in Matching(list, prompt) : i <= j
             updated == [list EXCEPT ![first] =
                            UpdateExisting(list[first], used_for_generation, timestamp)]
         IN  [result |-> Return(Str("Updated existing prompt: " \o prompt)),
              prompts |-> updated, prompts_file |-> save_prompts(updated)]
    ELSE LET appended == Append(list, PromptEntry(prompt, keywords, timestamp,
                                                  used_for_generation))
         IN  [result |-> Return(Str("Added new prompt: " \o prompt)),
              prompts |-> appended, prompts_file |-> save_prompts(appended)]

(***************************************************************************)
(* The state machine.                                                      *)
(***************************************************************************)
(* The browser sessions of the two-session machine, and a session that is  *)
(* not in a call.                                                          *)
Sessions == {"A", "B"}

IdleSession == [pc |-> "idle"]

(* A directory with nothing in it: disk maps a path to what was saved there. *)
NoFiles == [path \in {} |-> None]

ImagePaths == {None, Path("uploads", "cat", ".jpg")}

(* The size update_editor stored when the picture was uploaded: that of    *)
(* the uncropped picture, or of a picture uploaded before.                 *)
OriginalSizes == {<<1, 1>>, <<MaxDim, 1>>, <<2, MaxDim>>}

(* Cutouts offered to the merge: binary alpha, and one half-drawn pixel. *)
Cutouts ==
    {None} \cup {RGBAPicture("cutout", s[1], s[2], "checker") : s \in Sizes}
           \cup {RGBAPicture("cutout", 2, 1, "corner")}

(* Backgrounds: a path to an RGB file of each size, or a picture passed as such. *)
BackgroundPath == Path("uploads", "wall", ".png")

BackgroundFiles == {RGBPicture("background", s[1], s[2]) : s \in Sizes}

(* Pairs of background_image and the file it names, when it is a path. *)
Backgrounds ==
    {<<None, None>>, <<RGBAPicture("canvas", 2, 2, "solid"), None>>}
        \cup {<<BackgroundPath, f>> : f \in BackgroundFiles}

(* Slider positions in half pixels: -1.5, 0.5 and the whole pixels 0..MaxOff. *)
Positions == {-3, 1} \cup {2 * i : i \in 0..MaxOff}

(* Slider scales in tenths: 0.5, 1.0, 2.0. *)
Scales == {5, 10, 20}

(* Masks given to apply_mask: single-channel masks as generate_mask makes   *)
(* them, and RGBA pictures whose alpha channel is the mask.                *)
GreyMask(w, h, pat) ==
    PILImage("L", w, h, [p \in Grid(w, h) |-> Threshold(AlphaAt(pat, p[1], p[2]))])

MaskFiles ==
    {GreyMask(s[1], s[2], "checker") : s \in Sizes}
        \cup {RGBAPicture("mask", s[1], s[2], pat) : s \in Sizes, pat \in {"checker", "corner"}}

OutputImagePath == "new_builds/output.png"

Init ==
    /\ call = "idle"
    /\ args = None
    /\ locals = None
    /\ result = None
    /\ outputs_dir \in BOOLEAN
    /\ files = {}
    /\ sessions = [s \in Sessions |-> IdleSession]
    /\ disk = NoFiles
    /\ prompts = <<>>
    /\ prompts_file = None
    /\ now = 0

(* generate_btn.click *)
ProcessAndPrepareMerge ==
    /\ call = "idle"
    /\ UNCHANGED <<shared, tiles>>
    /\ \E image_path \in ImagePaths, image_file \in InputPictures,
       editor_output \in EditorOutputs, original_size \in OriginalSizes :
        LET out == process_and_prepare_merge(image_path, image_file, editor_output,
                                             original_size, outputs_dir, files)
        IN  /\ call' = "process_and_prepare_merge"
            /\ args' = [image_path |-> image_path,
                        image_file |-> IF image_path = None THEN None ELSE image_file,
                        editor_output |-> editor_output,
                        original_size |-> original_size]
            /\ locals' = out.locals
            /\ result' = out.result
            /\ outputs_dir' = out.outputs_dir
            /\ files' = out.files

(* A call of generate_mask with a target size of its own. *)
GenerateMask ==
    /\ call = "idle"
    /\ UNCHANGED <<shared, tiles>>
    /\ \E editor_output \in EditorOutputs, original_size \in Sizes :
        /\ call' = "generate_mask"
        /\ args' = [editor_output |-> editor_output, original_size |-> original_size]
        /\ locals' = None
        /\ result' = generate_mask(editor_output, original_size)
        /\ UNCHANGED <<outputs_dir, files>>

(* merge_btn.click *)
InteractiveMerge ==
    /\ call = "idle"
    /\ UNCHANGED <<shared, tiles>>
    /\ \E processed_image \in Cutouts, bg \in Backgrounds,
       x_position \in Positions, y_position \in Positions, scale \in Scales :
        LET background_image == bg[1]
            background_file == bg[2]
            out == interactive_merge(processed_image, background_image, background_file,
                                     x_position, y_position, scale, outputs_dir, files)
        IN  /\ call' = "interactive_merge"
            /\ args' = [processed_image |-> processed_image,
                        background_image |-> background_image,
                        background_file |-> background_file,
                        x_position |-> x_position,
                        y_position |-> y_position,
                        scale |-> scale]
            /\ locals' = out.locals
            /\ result' = out.result
            /\ outputs_dir' = out.outputs_dir
            /\ files' = out.files

(* A run of scripts/subtract_mask.py on an original and a mask file. *)
ApplyMask ==
    /\ call = "idle"
    /\ UNCHANGED <<shared, tiles>>
    /\ \E original_file \in InputPictures, mask_file \in MaskFiles :
        LET out == apply_mask(original_file, mask_file, OutputImagePath, outputs_dir, files)
        IN  /\ call' = "apply_mask"
            /\ args' = [original_file |-> original_file,
                        mask_file |-> mask_file,
                        output_image_path |-> OutputImagePath]
            /\ locals' = out.locals
            /\ result' = out.result
            /\ outputs_dir' = out.outputs_dir
            /\ files' = out.files

(* The response has been shown: the handler's frame is gone and the app   *)
(* waits for the next event.  Only the directory is left of the call.      *)
Finish ==
    /\ call # "idle"
    /\ call' = "idle"
    /\ args' = None
    /\ locals' = None
    /\ result' = None
    /\ UNCHANGED <<outputs_dir, files, shared, tiles>>

Next ==
    \/ GenerateMask
    \/ ProcessAndPrepareMerge
    \/ InteractiveMerge
    \/ ApplyMask
    \/ Finish

Spec == Init /\ [][Next]_vars

(***************************************************************************)
(* Running a step again on what it produced.                               *)
(***************************************************************************)
(* generate_btn.click once more, now on the processed picture that the     *)
(* call before saved (a PNG keeps its RGBA pixels), with the same overlay. *)
ProcessAgain ==
    /\ call = "process_and_prepare_merge"
    /\ UNCHANGED <<shared, tiles>>
    /\ locals.at = "done"
    /\ LET image_path == Path("outputs", args.image_path.name \o "-processed", ".png")
           out == process_and_prepare_merge(image_path, locals.processed_image,
                                            args.editor_output, args.original_size,
                                            outputs_dir, files)
       IN  /\ call' = "process_again"
           /\ args' = [image_path |-> image_path,
                       image_file |-> locals.processed_image,
                       editor_output |-> args.editor_output,
                       original_size |-> args.original_size,
                       mask_before |-> locals.mask_image]
           /\ locals' = out.locals
           /\ result' = out.result
           /\ outputs_dir' = out.outputs_dir
           /\ files' = out.files

(* scripts/subtract_mask.py once more, with the output of the run before   *)
(* as the original and the same mask file.                                 *)
ApplyMaskAgain ==
    /\ call = "apply_mask"
    /\ UNCHANGED <<shared, tiles>>
    /\ LET out == apply_mask(locals.output, args.mask_file, OutputImagePath, outputs_dir, files)
       IN  /\ call' = "apply_mask_again"
           /\ args' = [original_file |-> locals.output,
                       mask_file |-> args.mask_file,
                       output_image_path |-> OutputImagePath]
           /\ locals' = out.locals
           /\ result' = out.result
           /\ outputs_dir' = out.outputs_dir
           /\ files' = out.files

NextAgain ==
    \/ ProcessAndPrepareMerge
    \/ ProcessAgain
    \/ ApplyMask
    \/ ApplyMaskAgain
    \/ Finish

SpecAgain == Init /\ [][NextAgain]_vars

(***************************************************************************)
(* Two browser sessions on one server.  Gradio runs each event's handler   *)
(* in a worker thread, so the handlers of two sessions interleave at their *)
(* file operations; the pictures in memory belong to the call, the outputs *)
(* directory to the process.                                               *)
(***************************************************************************)
(* What a session uploads and draws: the picture, and an overlay of its size. *)
SessionUploads ==
    {<<RGBPicture("input", d, d), EditorValue(<<Layer(d, d, pat)>>)>> :
        d \in {1, 2}, pat \in {"solid", "checker"}}

SessionCutouts == {RGBAPicture("cutout", w, 1, "checker") : w \in {1, 2}}

SessionBackground == RGBPicture("background", 2, 2)

SessionPositions == {0, 2}

SessionScales == {5, 10}

(* Image.save(path) by session s: the file holds what was saved last. *)
save(fs, path, image, s) ==
    [p \in DOMAIN fs \cup {path} |-> IF p = path THEN [by |-> s, image |-> image] ELSE fs[p]]

(* Lines 75-93 in session s: the pictures are made in memory. *)
SessionProcess(s) ==
    /\ sessions[s].pc = "idle"
    /\ \E upload \in SessionUploads :
        LET image_path == Path("uploads", "cat", ".jpg")
            out == process_and_prepare_merge(image_path, upload[1], upload[2],
                                             size(upload[1]), outputs_dir, files)
        IN  sessions' = [sessions EXCEPT ![s] =
                [pc |-> IF out.locals.at = "done" THEN "line 96" ELSE "returned",
                 op |-> "process_and_prepare_merge",
                 result |-> out.result, locals |-> out.locals, written |-> {}]]
    /\ UNCHANGED <<compositor, files, disk, tiles>>

(* Lines 96-105 in session s: the processed picture is saved. *)
SessionSaveProcessed(s) ==
    /\ sessions[s].pc = "line 96"
    /\ LET path == sessions[s].locals.processed_path
       IN  /\ disk' = save(disk, path, sessions[s].locals.processed_image, s)
           /\ files' = files \cup {path}
           /\ sessions' = [sessions EXCEPT ![s].pc = "returned", ![s].written = {path}]
    /\ UNCHANGED <<compositor, tiles>>

(* Lines 121-144 in session s: the cutout is scaled in memory. *)
SessionMerge(s) ==
    /\ sessions[s].pc = "idle"
    /\ \E processed_image \in SessionCutouts, x_position \in SessionPositions,
          y_position \in SessionPositions, scale \in SessionScales :
        LET out == interactive_merge(processed_image, BackgroundPath, SessionBackground,
                                     x_position, y_position, scale, outputs_dir, files)
        IN  sessions' = [sessions EXCEPT ![s] =
                [pc |-> IF out.locals.at = "done" THEN "line 148" ELSE "returned",
                 op |-> "interactive_merge",
                 result |-> out.result, locals |-> out.locals, written |-> {}]]
    /\ UNCHANGED <<compositor, files, disk, tiles>>

(* Lines 148-151 in session s: the scaled cutout is saved. *)
SessionSaveScaled(s) ==
    /\ sessions[s].pc = "line 148"
    /\ LET path == join_outputs("scaled_processed.png")
       IN  /\ disk' = save(disk, path, sessions[s].locals.processed, s)
           /\ files' = files \cup {path}
           /\ sessions' = [sessions EXCEPT ![s].pc = "line 153", ![s].written = {path}]
    /\ UNCHANGED <<compositor, tiles>>

(* Lines 153-174 in session s: the merged picture is pasted and saved. *)
SessionSaveMerged(s) ==
    /\ sessions[s].pc = "line 153"
    /\ LET path == join_outputs("merged.png")
       IN  /\ disk' = save(disk, path, sessions[s].result.value, s)
           /\ files' = files \cup {path}
           /\ sessions' = [sessions EXCEPT ![s].pc = "returned",
                                           ![s].written = @ \cup {path}]
    /\ UNCHANGED <<compositor, tiles>>

(* The response has been shown to session s. *)
SessionFinish(s) ==
    /\ sessions[s].pc = "returned"
    /\ sessions' = [sessions EXCEPT ![s] = IdleSession]
    /\ UNCHANGED <<compositor, files, disk, tiles>>

InitSessions ==
    /\ call = "idle"
    /\ args = None
    /\ locals = None
    /\ result = None
    /\ outputs_dir = TRUE
    /\ files = {}
    /\ sessions = [s \in Sessions |-> IdleSession]
    /\ disk = NoFiles
    /\ prompts = <<>>
    /\ prompts_file = None
    /\ now = 0

NextSessions ==
    \E s \in Sessions :
        \/ SessionProcess(s)
        \/ SessionSaveProcessed(s)
        \/ SessionMerge(s)
        \/ SessionSaveScaled(s)
        \/ SessionSaveMerged(s)
        \/ SessionFinish(s)

SpecSessions == InitSessions /\ [][NextSessions]_vars

(***************************************************************************)
(* The tile generator's two buttons.                                       *)
(***************************************************************************)
PromptTexts == {"castle", "forest", "lake"}

KeywordTexts == {"", "stone, moss"}

(* datetime.now() at a call: the clock has not gone back since the last. *)
Times == {t \in now..(now + 1) : t <= MaxTime}

(* Prompt files found at start: none, or a list saved by an earlier run. *)
PromptFiles ==
    {None,
     json_dump(<<PromptEntry("castle", "", 0, TRUE)>>),
     json_dump(<<PromptEntry("lake", "stone, moss", 0, FALSE),
                 PromptEntry("castle", "", 0, FALSE)>>)}

(* add_button.click *)
AddPrompt ==
    /\ call = "idle"
    /\ UNCHANGED <<outputs_dir, files, shared>>
    /\ \E prompt \in PromptTexts, keywords \in KeywordTexts, timestamp \in Times :
        LET out == add_prompt(prompts, prompt, keywords, FALSE, timestamp)
        IN  /\ call' = "add_prompt"
            /\ args' = [prompt |-> prompt, keywords |-> keywords,
                        used_for_generation |-> FALSE]
            /\ locals' = None
            /\ result' = out.result
            /\ prompts' = out.prompts
            /\ prompts_file' = out.prompts_file
            /\ now' = timestamp

(* generate_button.click: the prompt is recorded once the tile and its     *)
(* background removal came back; a failed request raises before line 159.  *)
ProcessImage ==
    /\ call = "idle"
    /\ UNCHANGED <<outputs_dir, files, shared>>
    /\ \E prompt \in PromptTexts, generated \in BOOLEAN, timestamp \in Times :
        LET out == add_prompt(prompts, prompt, "", TRUE, timestamp)
        IN  /\ call' = "process_image"
            /\ args' = [prompt |-> prompt, keywords |-> "",
                        used_for_generation |-> TRUE]
            /\ locals' = None
            /\ result' = IF generated THEN Return(Str("generated_image, bg_removed_image"))
                         ELSE Raise("Exception")
            /\ prompts' = IF generated THEN out.prompts ELSE prompts
            /\ prompts_file' = IF generated THEN out.prompts_file ELSE prompts_file
            /\ now' = timestamp

InitPrompts ==
    /\ call = "idle"
    /\ args = None
    /\ locals = None
    /\ result = None
    /\ outputs_dir = FALSE
    /\ files = {}
    /\ sessions = [s \in Sessions |-> IdleSession]
    /\ disk = NoFiles
    /\ prompts_file \in PromptFiles
    /\ prompts = load_prompts(prompts_file)
    /\ now = 0

NextPrompts ==
    \/ AddPrompt
    \/ ProcessImage
    \/ Finish

SpecPrompts == InitPrompts /\ [][NextPrompts]_vars

(***************************************************************************)
(* Properties.                                                             *)
(***************************************************************************)
ProcessCropped == call = "process_and_prepare_merge" /\ locals.at # "missing"

ProcessDone == call = "process_and_prepare_merge" /\ locals.at = "done"

(* C1: crop_to_square of a w x h image is the s x s region, s = min(w, h), *)
(* whose left edge is floor((w - s) / 2) and top edge floor((h - s) / 2):  *)
(* it lies inside the input and its centre is the input's centre up to the *)
(* rounding of the division by two.                                        *)
C1_CropToSquare ==
    ProcessCropped =>
        LET I == locals.opened
            C == locals.original_image
            s == IF I.w <= I.h THEN I.w ELSE I.h
        IN  /\ C.w = s /\ C.h = s
            /\ DOMAIN C.px = Grid(s, s)
            /\ \E left \in 0..(I.w - s), top \in 0..(I.h - s) :
                /\ 2 * left <= I.w - s /\ I.w - s <= 2 * left + 1
                /\ 2 * top <= I.h - s /\ I.h - s <= 2 * top + 1
                /\ \A p \in Grid(s, s) : C.px[p] = I.px[<<p[1] + left, p[2] + top>>]

(* A 1 x 2 image (the 100 x 200 case in small) cropped to 1 x 1, and a     *)
(* 3 x 1 image whose crop starts one pixel in.                             *)
C1_Witness ==
    /\ ProcessCropped
    /\ \/ locals.opened.w = 1 /\ locals.opened.h = 2 /\ size(locals.original_image) = <<1, 1>>
       \/ /\ locals.opened.w = 3 /\ locals.opened.h = 1
          /\ locals.original_image.px[<<0, 0>>] = locals.opened.px[<<1, 0>>]

MaskMade == call = "generate_mask" /\ args.editor_output \in WellFormedEditorOutputs

(* C2: from a well-formed overlay and a target size (w, h), generate_mask  *)
(* returns a mask of exactly w x h pixels, each of them 0 or 255.          *)
C2_MaskBinary ==
    /\ MaskMade =>
        /\ result.kind = "return"
        /\ result.value.kind = "Image"
        /\ size(result.value) = args.original_size
        /\ DOMAIN result.value.px = Grid(args.original_size[1], args.original_size[2])
        /\ \A p \in DOMAIN result.value.px : result.value.px[p] \in {0, 255}
    /\ ProcessDone =>
        /\ size(locals.mask_image) = size(locals.original_image)
        /\ \A p \in DOMAIN locals.mask_image.px : locals.mask_image.px[p] \in {0, 255}

(* A faintly drawn 2 x 2 overlay rasterized to 3 x 2. *)
C2_Witness ==
    /\ MaskMade
    /\ args.original_size = <<3, 2>>
    /\ args.editor_output.items.layers[1].at[<<0, 0>>][4] = 1
    /\ size(args.editor_output.items.layers[1]) = <<2, 2>>
    /\ result.value.px[<<0, 0>>] = 255
    /\ result.value.px[<<2, 0>>] = 0

(* C3: every pixel of the mask is the thresholded alpha (255 if alpha > 0, *)
(* else 0) of the overlay pixel its centre falls in; a fully opaque        *)
(* overlay gives an all-255 mask and a fully transparent one an all-0 one. *)
C3_ThresholdThenNearest ==
    MaskMade =>
        LET layer == args.editor_output.items.layers[1]
            out == result.value
        IN  /\ \A p \in Grid(out.w, out.h), q \in Grid(layer.w, layer.h) :
                   ( /\ 2 * out.w * q[1] <= (2 * p[1] + 1) * layer.w
                     /\ (2 * p[1] + 1) * layer.w < 2 * out.w * (q[1] + 1)
                     /\ 2 * out.h * q[2] <= (2 * p[2] + 1) * layer.h
                     /\ (2 * p[2] + 1) * layer.h < 2 * out.h * (q[2] + 1) )
                   => out.px[p] = (IF layer.at[q][4] > 0 THEN 255 ELSE 0)
            /\ (\A q \in Grid(layer.w, layer.h) : layer.at[q][4] = 255)
                   => \A p \in Grid(out.w, out.h) : out.px[p] = 255
            /\ (\A q \in Grid(layer.w, layer.h) : layer.at[q][4] = 0)
                   => \A p \in Grid(out.w, out.h) : out.px[p] = 0

(* A 3 x 1 checkered overlay shrunk to 2 x 1 (the second output pixel      *)
(* reads the third source pixel), and a fully opaque 3 x 3 overlay         *)
(* rasterized to 2 x 3.                                                    *)
C3_Witness ==
    /\ MaskMade
    /\ LET layer == args.editor_output.items.layers[1]
       IN  \/ /\ size(layer) = <<3, 1>> /\ args.original_size = <<2, 1>>
              /\ layer.at[<<1, 0>>][4] = 0 /\ layer.at[<<2, 0>>][4] = 255
              /\ result.value.px[<<1, 0>>] = 255
           \/ /\ size(layer) = <<3, 3>> /\ args.original_size = <<2, 3>>
              /\ \A q \in Grid(3, 3) : layer.at[q][4] = 255
              /\ \A p \in Grid(2, 3) : result.value.px[p] = 255

MaskApplied == call = "apply_mask"

(* C4: applying a mask M to an image I gives an image of I's dimensions    *)
(* whose RGB is I's at every pixel and whose alpha is M at every pixel (0  *)
(* where M = 0, 255 where M = 255), in process_and_prepare_merge and in    *)
(* apply_mask alike.  M is the mask's grey value when it has one channel   *)
(* and its alpha channel otherwise.  For apply_mask the claim is stated on *)
(* its plainest inputs only: a binary mask and a fully opaque image.       *)
C4_ApplyAlpha ==
    /\ ProcessDone =>
        LET I == locals.original_image
            M == locals.mask_image
            O == locals.processed_image
        IN  /\ size(O) = size(I)
            /\ \A p \in Grid(I.w, I.h) : O.px[p].rgb = I.px[p].rgb /\ O.px[p].a = M.px[p]
    /\ MaskApplied =>
        LET I == locals.opened
            F == args.mask_file
            M == [p \in DOMAIN F.px |-> IF F.mode = "L" THEN F.px[p] ELSE F.px[p].a]
            O == locals.output
        IN  ( /\ \A p \in DOMAIN M : M[p] \in {0, 255}
              /\ \A p \in DOMAIN I.px : I.px[p].a = 255 ) =>
                /\ size(O) = size(I)
                /\ \A p \in Grid(I.w, I.h) : O.px[p].rgb = I.px[p].rgb /\ O.px[p].a = M[p]

MergeCalled ==
    /\ call = "interactive_merge"
    /\ args.processed_image # None
    /\ args.background_image # None

MergeDone == call = "interactive_merge" /\ locals.at = "done"

(* C5 as claimed: for every cutout, background, offset and positive scale  *)
(* interactive_merge returns an image of the background's dimensions that  *)
(* equals the background outside the rectangle of the scaled cutout.       *)
C5_MergeAlwaysImage ==
    MergeCalled =>
        /\ result.value.kind = "Image"
        /\ size(result.value) = size(locals.background)
        /\ \A p \in Grid(locals.background.w, locals.background.h) :
               ~InBox(p, locals.paste_x, locals.paste_y, locals.processed.w, locals.processed.h)
                   => result.value.px[p] = locals.background.px[p]

(* C5, amended: when the scaled cutout has at least one pixel on each axis *)
(* and the outputs directory exists, interactive_merge returns an image of *)
(* the background's dimensions that equals the background at every pixel   *)
(* outside the rectangle of the scaled cutout at the clamped position; in  *)
(* every other case it returns an error message and no image.              *)
C5_MergeFrame ==
    MergeCalled =>
        IF /\ args.processed_image.w * args.scale >= 10
           /\ args.processed_image.h * args.scale >= 10
           /\ outputs_dir
        THEN /\ result.kind = "return"
             /\ result.value.kind = "Image"
             /\ size(result.value) = size(locals.background)
             /\ DOMAIN result.value.px = DOMAIN locals.background.px
             /\ \A p \in Grid(locals.background.w, locals.background.h) :
                    ~InBox(p, locals.paste_x, locals.paste_y,
                           locals.processed.w, locals.processed.h)
                        => result.value.px[p] = locals.background.px[p]
        ELSE /\ result.kind = "return"
             /\ result.value.kind = "str"

(* A 1 x 1 opaque cutout pasted at (1, 1) of a 2 x 2 background: the pixel *)
(* under it is replaced, the other three are the background's.             *)
C5_Witness ==
    /\ MergeDone
    /\ size(locals.background) = <<2, 2>>
    /\ size(locals.processed) = <<1, 1>>
    /\ locals.paste_x = 1 /\ locals.paste_y = 1
    /\ result.value.px[<<1, 1>>] # locals.background.px[<<1, 1>>]
    /\ result.value.px[<<0, 1>>] = locals.background.px[<<0, 1>>]

(* C6: the cutout is scaled to (floor(w * scale), floor(h * scale)) and    *)
(* pasted, per axis, at max(0, min(offset, background - scaled)): inside   *)
(* [0, background - scaled] when the scaled cutout fits, at 0 when it is   *)
(* larger than the background.                                             *)
C6_ScaleThenClamp ==
    MergeDone =>
        LET c == args.processed_image
            b == locals.background
            s == locals.processed
            ox == CHOOSE o \in (-MaxOff - 2)..(MaxOff + 2) :
                      IF args.x_position >= 0
                      THEN 2 * o <= args.x_position /\ args.x_position < 2 * o + 2
                      ELSE 2 * o - 2 < args.x_position /\ args.x_position <= 2 * o
            oy == CHOOSE o \in (-MaxOff - 2)..(MaxOff + 2) :
                      IF args.y_position >= 0
                      THEN 2 * o <= args.y_position /\ args.y_position < 2 * o + 2
                      ELSE 2 * o - 2 < args.y_position /\ args.y_position <= 2 * o
        IN  /\ 10 * s.w <= c.w * args.scale /\ c.w * args.scale < 10 * (s.w + 1)
            /\ 10 * s.h <= c.h * args.scale /\ c.h * args.scale < 10 * (s.h + 1)
            /\ IF s.w <= b.w
               THEN /\ 0 <= locals.paste_x /\ locals.paste_x <= b.w - s.w
                    /\ (0 <= ox /\ ox <= b.w - s.w) => locals.paste_x = ox
                    /\ ox > b.w - s.w => locals.paste_x = b.w - s.w
                    /\ ox < 0 => locals.paste_x = 0
               ELSE locals.paste_x = 0
            /\ IF s.h <= b.h
               THEN /\ 0 <= locals.paste_y /\ locals.paste_y <= b.h - s.h
                    /\ (0 <= oy /\ oy <= b.h - s.h) => locals.paste_y = oy
                    /\ oy > b.h - s.h => locals.paste_y = b.h - s.h
                    /\ oy < 0 => locals.paste_y = 0
               ELSE locals.paste_y = 0
            /\ \A q \in Grid(s.w, s.h) :
                   (s.px[q].a = 255 /\ <<q[1] + locals.paste_x, q[2] + locals.paste_y>> \in Grid(b.w, b.h))
                       => result.value.px[<<q[1] + locals.paste_x, q[2] + locals.paste_y>>] = s.px[q]

(* A 1 x 1 cutout on a 2 x 2 background at offset (3, 3) with scale 1.0 is *)
(* pasted at (1, 1): the 50 x 50 on 100 x 100 at (200, 200) case in small. *)
C6_Witness ==
    /\ MergeDone
    /\ size(args.processed_image) = <<1, 1>>
    /\ size(locals.background) = <<2, 2>>
    /\ args.x_position = 6 /\ args.y_position = 6 /\ args.scale = 10
    /\ locals.paste_x = 1 /\ locals.paste_y = 1

(* C7 as claimed: the rectangle the cutout is pasted into never extends    *)
(* beyond the background.                                                  *)
C7_RectangleInside ==
    MergeDone =>
        /\ 0 <= locals.paste_x /\ locals.paste_x + locals.processed.w <= locals.background.w
        /\ 0 <= locals.paste_y /\ locals.paste_y + locals.processed.h <= locals.background.h

(* C7, amended: on every axis on which the scaled cutout is no larger than *)
(* the background the rectangle stays inside the background; on an axis on *)
(* which it is larger the rectangle starts at 0 and extends beyond the far *)
(* edge, and the merged image still has the background's dimensions.       *)
C7_RectangleInsideWhenFits ==
    MergeDone =>
        /\ locals.processed.w <= locals.background.w
               => /\ 0 <= locals.paste_x
                  /\ locals.paste_x + locals.processed.w <= locals.background.w
        /\ locals.processed.h <= locals.background.h
               => /\ 0 <= locals.paste_y
                  /\ locals.paste_y + locals.processed.h <= locals.background.h
        /\ locals.processed.w > locals.background.w
               => /\ locals.paste_x = 0
                  /\ locals.paste_x + locals.processed.w > locals.background.w
        /\ locals.processed.h > locals.background.h
               => /\ locals.paste_y = 0
                  /\ locals.paste_y + locals.processed.h > locals.background.h
        /\ size(result.value) = size(locals.background)

(* A cutout asked to go beyond the right edge of a background it fits in,  *)
(* and a cutout scaled to twice the background's width.                    *)
C7_Witness ==
    /\ MergeDone
    /\ \/ /\ locals.processed.w < locals.background.w
          /\ args.x_position > 2 * (locals.background.w - locals.processed.w)
          /\ locals.paste_x + locals.processed.w = locals.background.w
       \/ /\ locals.processed.w = 2 * locals.background.w
          /\ locals.paste_x = 0

(* C8: a mask is applied only to an image of its own dimensions: the mask  *)
(* of process_and_prepare_merge has the size of the square-cropped         *)
(* original whatever original_size was passed, and apply_mask resolves a   *)
(* size mismatch by resizing, without raising and without truncating.      *)
C8_MaskMatchesImage ==
    /\ (call = "process_and_prepare_merge" /\ locals.at \in {"putalpha", "done"}) =>
        /\ locals.at = "done"
        /\ size(locals.mask_image) = size(locals.original_image)
        /\ DOMAIN locals.mask_image.px = DOMAIN locals.original_image.px
        /\ size(locals.processed_image) = size(locals.original_image)
    /\ MaskApplied =>
        /\ result.kind = "return"
        /\ size(locals.mask) = size(locals.original)
        /\ DOMAIN locals.mask.px = DOMAIN locals.original.px
        /\ size(locals.mask) = size(args.mask_file)
        /\ size(locals.output) = size(locals.mask)

(* A mask made for a 1 x 1 crop while original_size says 3 x 1, and an     *)
(* apply_mask run on files of different sizes.                             *)
C8_Witness ==
    \/ /\ ProcessDone
       /\ size(locals.original_image) = <<1, 1>>
       /\ args.original_size = <<MaxDim, 1>>
       /\ size(locals.mask_image) = <<1, 1>>
    \/ /\ MaskApplied
       /\ size(args.original_file) # size(args.mask_file)
       /\ size(locals.original) = size(locals.mask)

(* C9: with a required input absent the call returns its status message    *)
(* and nothing else, and writes nothing: process_and_prepare_merge without *)
(* image_path or editor_output, interactive_merge without processed_image  *)
(* or background_image.                                                    *)
C9_MissingInputAborts ==
    [][ /\ ( /\ call' = "process_and_prepare_merge"
             /\ (args'.image_path = None \/ args'.editor_output = None) )
            => /\ result' = Return(<<Str("No image or mask to process."), None, None>>)
               /\ files' = files
               /\ outputs_dir' = outputs_dir
        /\ ( /\ call' = "interactive_merge"
             /\ (args'.processed_image = None \/ args'.background_image = None) )
            => /\ result' = Return(Str("Processed image or background image is missing."))
               /\ files' = files
               /\ outputs_dir' = outputs_dir ]_vars

(* A picture without an overlay, and a cutout without a background. *)
C9_Witness ==
    \/ /\ call = "process_and_prepare_merge"
       /\ args.image_path # None /\ args.editor_output = None
       /\ result.value[1] = Str("No image or mask to process.")
       /\ result.value[2] = None /\ result.value[3] = None
    \/ /\ call = "interactive_merge"
       /\ args.processed_image # None /\ args.background_image = None
       /\ result.value = Str("Processed image or background image is missing.")

(* C10: from an overlay that is present but malformed generate_mask        *)
(* returns None and does not raise, and process_and_prepare_merge reports  *)
(* the failure with no mask and no processed image.                        *)
C10_MalformedGivesNoMask ==
    /\ (call = "generate_mask" /\ args.editor_output \in MalformedEditorOutputs)
           => result = Return(None)
    /\ ( /\ call = "process_and_prepare_merge"
         /\ args.image_path # None
         /\ args.editor_output \in MalformedEditorOutputs )
           => result = Return(<<Str("Failed to generate mask."), None, None>>)

(* C11: applying the same mask again to what the alpha compositor made     *)
(* changes nothing: a second process_and_prepare_merge on the processed    *)
(* picture returns the same mask and the same processed picture, and a     *)
(* second apply_mask on the output gives the same output.                  *)
C11_ReapplyIsNoOp ==
    /\ call = "process_again" =>
        /\ locals.at = "done"
        /\ locals.mask_image = args.mask_before
        /\ locals.processed_image = args.image_file
    /\ call = "apply_mask_again" =>
        /\ locals.at = "done"
        /\ locals.output = args.original_file

(* A second run on a cutout with both kept and removed pixels, and a       *)
(* second apply_mask whose mask removes a pixel and keeps a pixel.         *)
C11_Witness ==
    \/ /\ call = "process_again"
       /\ \E p, q \in DOMAIN locals.processed_image.px :
              locals.processed_image.px[p].a = 0 /\ locals.processed_image.px[q].a = 255
    \/ /\ call = "apply_mask_again"
       /\ \E p, q \in DOMAIN locals.output.px :
              /\ locals.mask.px[p].a # 255 /\ locals.output.px[p].a = 0
              /\ locals.mask.px[q].a = 255 /\ locals.output.px[q].a = 255

ProcessStep ==
    /\ call' = "process_and_prepare_merge"
    /\ result'.kind = "return"
    /\ result'.value[3] # None

(* C12 as claimed: a successful process_and_prepare_merge on <name> leaves *)
(* both <name>-mask.png and <name>-processed.png in the output directory.  *)
C12_MaskAndProcessedWritten ==
    ProcessDone =>
        /\ join_outputs(args.image_path.name \o "-processed.png") \in files
        /\ join_outputs(args.image_path.name \o "-mask.png") \in files

(* C12, amended: a successful process_and_prepare_merge on a file whose    *)
(* base name is <name> writes the processed cutout as                      *)
(* outputs/<name>-processed.png and writes nothing else: the mask is       *)
(* returned, not written.                                                  *)
C12_OnlyProcessedWritten ==
    [][ ProcessStep =>
            /\ outputs_dir'
            /\ files' = files \cup {"outputs/" \o args'.image_path.name \o "-processed.png"}
            /\ result'.value[1] = Str("Processed image saved as outputs/"
                                       \o args'.image_path.name \o "-processed.png")
            /\ result'.value[2] # None ]_vars

(* A successful run on uploads/cat.jpg with outputs/cat-processed.png on   *)
(* disk and no mask file beside it.                                        *)
C12_Witness ==
    /\ ProcessDone
    /\ args.image_path = Path("uploads", "cat", ".jpg")
    /\ "outputs/cat-processed.png" \in files
    /\ "outputs/cat-mask.png" \notin files


(* A session is inside a call from the click to the response. *)
InCall(s) == sessions[s].pc \notin {"idle", "returned"}

(* What session s saved during its call is still in the file. *)
OutputsIntact(s) ==
    \A path \in sessions[s].written : path \in DOMAIN disk /\ disk[path].by = s

(* C13: concurrent calls of different sessions are independent: no file    *)
(* written by one call is overwritten by the other while that call runs.   *)
(* The code saves every session's pictures under the same fixed names.     *)
C13_SessionsIndependent == \A s \in Sessions : InCall(s) => OutputsIntact(s)

(* The background as interactive_merge opened it, before any paste. *)
BackgroundOpened ==
    IF args.background_image.kind = "path"
    THEN convert_RGBA(args.background_file)
    ELSE convert_RGBA(args.background_image)

(* C14: no compositing operation changes the data it was given.  After     *)
(* process_and_prepare_merge the cropped original is still the crop of the *)
(* opened file (the mask went onto a copy) and the overlay is what was     *)
(* passed; after interactive_merge the background is still the opened       *)
(* background (the paste went onto a copy) and the caller's processed      *)
(* image and background image are pixel for pixel what was passed.         *)
C14_InputsUntouched ==
    /\ ProcessDone =>
        /\ locals.original_image = crop_to_square(convert_RGBA(args.image_file))
        /\ locals.editor_output = args.editor_output
    /\ MergeDone =>
        /\ locals.background = BackgroundOpened
        /\ locals.processed_image = args.processed_image
        /\ locals.background_image = args.background_image

(* A call whose output differs from the picture it started from: a mask    *)
(* that clears a pixel of an opaque original, or a paste that changes a     *)
(* pixel of the background.                                                *)
C14_Witness ==
    \/ /\ ProcessDone
       /\ locals.processed_image # locals.original_image
       /\ \E p \in DOMAIN locals.original_image.px :
            locals.original_image.px[p].a = 255 /\ locals.processed_image.px[p].a = 0
    \/ /\ MergeDone
       /\ result.value # locals.background
       /\ args.background_image.kind = "Image"

NoDuplicates(list) ==
    \A i, j \in 1..Len(list) : list[i].prompt = list[j].prompt => i = j

(* A step in which add_prompt ran: the Add Prompt button, or a generation  *)
(* that got as far as line 159.                                            *)
AddPromptStep ==
    \/ call' = "add_prompt"
    \/ call' = "process_image" /\ result'.kind = "return"

(* C15: add_prompt keeps the prompt texts of the list distinct; a text     *)
(* already in the list leaves the length as it is and never takes an       *)
(* entry's used_for_generation from True back to False; and after the call *)
(* the prompts file holds the list that is in memory.                      *)
C15_AddPromptKeepsList ==
    [][AddPromptStep =>
        /\ NoDuplicates(prompts) => NoDuplicates(prompts')
        /\ Matching(prompts, args'.prompt) # {} =>
            /\ Len(prompts') = Len(prompts)
            /\ \A i \in 1..Len(prompts) :
                /\ prompts'[i].prompt = prompts[i].prompt
                /\ prompts[i].used_for_generation => prompts'[i].used_for_generation
        /\ prompts_file' # None
        /\ load_prompts(prompts_file') = prompts']_vars

(* The Add Prompt button pressed on a text that a generation has used,     *)
(* in a list of several prompts.                                           *)
C15_Witness ==
    /\ call = "add_prompt"
    /\ result = Return(Str("Updated existing prompt: " \o args.prompt))
    /\ Len(prompts) >= 2
    /\ NoDuplicates(prompts)
    /\ \E i \in 1..Len(prompts) :
        prompts[i].prompt = args.prompt /\ prompts[i].used_for_generation
    /\ load_prompts(prompts_file) = prompts


====
